---- MODULE Spec2Model ----
(***************************************************************************)
(* deno-hooks: the configuration loader (src/config.ts) and the run        *)
(* orchestrator (run.ts) as a state machine.  One run of run(hookName) is  *)
(* a walk through pc = "gitroot", "load", "staged", "loop", "exec", "done", *)
(* one step per await of the source.                                       *)
(* install() (install.ts) is a second walk, ipc = "gitroot", "load",       *)
(* "create", "reload", "ensure", "write", "chmod", "done" or "failed", and *)
(* the scripts it writes are run line by line by a shell (spc).  run() is  *)
(* studied under Spec, install() and its scripts under SpecInstall.        *)
(*                                                                         *)
(* File paths and glob patterns are sequences of one-character strings, so *)
(* that matching is computed and not looked up.                            *)
(***************************************************************************)
EXTENDS Integers, Sequences, FiniteSets, TLC

\* ------------------------------------------------------------------ bounds
\* Largest number of hooks a configuration declares, over all its triggers.
MaxHooks == 3

\* Largest number of hooks of a configuration in the study of termination.
MaxLiveHooks == 2

\* Longest pre-commit list of a configuration handed to install().
MaxCommands == 2

\* ------------------------------------------------------------- the inputs
PreCommit == "pre-commit"
PrePush == "pre-push"

\* Triggers in the key order of the configuration object.
TriggerOrder == <<PreCommit, PrePush>>

Triggers == {TriggerOrder[i] : i \in 1..Len(TriggerOrder)}

\* The names run() is called with: the triggers a configuration may declare
\* and one git hook no configuration of the model declares.
HookNames == Triggers \cup {"commit-msg"}

F_a_ts == <<"a", ".", "t", "s">>
F_a_t_ts == <<"a", ".", "t", ".", "t", "s">>
F_b_md == <<"b", ".", "m", "d">>

\* The paths of the work tree, in the (sorted) order git lists them.
AllFiles == <<F_a_t_ts, F_a_ts, F_b_md>>

G_ts == <<"*", ".", "t", "s">>
G_js_ts == <<"*", ".", "{", "j", "s", ",", "t", "s", "}">>
G_t_ts == <<"*", ".", "t", ".", "t", "s">>
NoPattern == <<>>

\* An element of a trigger's list.  A hook object has text = ""; a bare
\* command string (see Command) has its characters in text and no property.
Hook(id, name, cmd, glob, exclude, pass) ==
  [id |-> id, name |-> name, run |-> cmd, glob |-> glob,
   exclude |-> exclude, pass_filenames |-> pass, text |-> ""]

\* A list element that is a string: every property read gives undefined.
Command(text) ==
  [id |-> "", name |-> "", run |-> "", glob |-> <<>>,
   exclude |-> <<>>, pass_filenames |-> FALSE, text |-> text]

\* The phrase install() looks for in the message of a loadConfig error.
NotFoundPhrase == "No configuration found"

\* An absent (or empty) string field is "", an absent pattern is <<>>.
ValidHooks ==
  { Hook("lint", "Lint", "deno-lint", G_js_ts, G_t_ts, TRUE),
    Hook("test", "", "deno-test", NoPattern, NoPattern, FALSE),
    Hook("chk", "", "check.sh", NoPattern, G_t_ts, TRUE),
    Hook("ts", "", "deno-fmt", G_ts, NoPattern, FALSE) }

InvalidHooks ==
  { Hook("", "", "deno-fmt", G_ts, NoPattern, TRUE),
    Hook("norun", "", "", NoPattern, NoPattern, FALSE) }

HookPool == ValidHooks \cup InvalidHooks

\* --------------------------------------------------------- glob matching
FirstIdx(s, c) ==
  IF \E i \in 1..Len(s) : s[i] = c
  THEN CHOOSE i \in 1..Len(s) : s[i] = c /\ \A j \in 1..(i - 1) : s[j] # c
  ELSE 0

RECURSIVE Alternatives(_)
Alternatives(s) ==
  LET k == FirstIdx(s, ",")
  IN IF k = 0 THEN {s}
     ELSE {SubSeq(s, 1, k - 1)} \cup Alternatives(SubSeq(s, k + 1, Len(s)))

RECURSIVE ExpandBraces(_)
ExpandBraces(p) ==
  LET i == FirstIdx(p, "{")
      rest == SubSeq(p, i + 1, Len(p))
      j == FirstIdx(rest, "}")
  IN IF i = 0 \/ j = 0 THEN {p}
     ELSE UNION { ExpandBraces(SubSeq(p, 1, i - 1) \o a
                               \o SubSeq(rest, j + 1, Len(rest)))
                  : a \in Alternatives(SubSeq(rest, 1, j - 1)) }

\* "*" matches any run of characters within one path segment; "**" is not a
\* wildcard and is matched literally.
RECURSIVE MatchHere(_, _)
MatchHere(p, s) ==
  IF p = <<>> THEN s = <<>>
  ELSE IF Head(p) = "*" /\ Len(p) >= 2 /\ p[2] = "*"
  THEN Len(s) >= 2 /\ s[1] = "*" /\ s[2] = "*"
       /\ MatchHere(SubSeq(p, 3, Len(p)), SubSeq(s, 3, Len(s)))
  ELSE IF Head(p) = "*"
  THEN \/ MatchHere(Tail(p), s)
       \/ (s # <<>> /\ Head(s) # "/" /\ MatchHere(p, Tail(s)))
  ELSE s # <<>> /\ Head(s) = Head(p) /\ MatchHere(Tail(p), Tail(s))

matches(path, pattern) == \E q \in ExpandBraces(pattern) : MatchHere(q, path)

filterFiles(fs, pattern) == SelectSeq(fs, LAMBDA f : matches(f, pattern))

isExcluded(f, patterns) == \E i \in 1..Len(patterns) : matches(f, patterns[i])

\* --------------------------------------------------------- configuration
\* A parsed configuration document.  hasHooks: the document has a "hooks"
\* object; per trigger: whether the key is present, whether its value is an
\* array, and the array.
Entry(present, isArray, list) ==
  [present |-> present, isArray |-> isArray, list |-> list]

AbsentEntry == Entry(FALSE, FALSE, <<>>)

Config(hasHooks, pc_, pp_) ==
  [hasHooks |-> hasHooks,
   hooks |-> [t \in Triggers |-> IF t = PreCommit THEN pc_ ELSE pp_]]

NoConfig == Config(FALSE, AbsentEntry, AbsentEntry)

HookLists(n) == UNION {[1..k -> HookPool] : k \in 0..n}

Entries(n) == {AbsentEntry} \cup {Entry(TRUE, TRUE, l) : l \in HookLists(n)}

\* Every document with a hooks object whose triggers map to arrays, with at
\* most MaxHooks hooks in all.
ArrayConfigs ==
  UNION { {Config(TRUE, a, b) : b \in Entries(MaxHooks - Len(a.list))}
          : a \in Entries(MaxHooks) }

Configs ==
  ArrayConfigs
  \cup { NoConfig,
         Config(TRUE, Entry(TRUE, FALSE, <<>>), AbsentEntry) }

\* Error messages are sequences of fragments: the fixed text of the
\* template and the interpolated values, so that String.includes on a
\* message can be computed.  <<>> is "no error".
\* validateConfig: <<>> when the configuration passes, else the message of
\* the first error, going through the triggers and their hooks in order.
\* Mutant: the run field is not checked.
RECURSIVE validateHooks_IdOnly(_, _)
validateHooks_IdOnly(hookName_, list) ==
  IF list = <<>> THEN <<>>
  ELSE IF Head(list).id = ""
  THEN <<"Hook in ", hookName_, " missing required 'id' field">>
  ELSE validateHooks_IdOnly(hookName_, Tail(list))

RECURSIVE validateHooks(_, _)
validateHooks(hookName_, list) ==
  IF list = <<>> THEN <<>>
  ELSE IF Head(list).id = ""
  THEN <<"Hook in ", hookName_, " missing required 'id' field">>
  ELSE IF Head(list).run = ""
  THEN <<"Hook '", Head(list).id, "' missing required 'run' field">>
  ELSE validateHooks(hookName_, Tail(list))

RECURSIVE validateEntries(_, _)
validateEntries(config, k) ==
  IF k > Len(TriggerOrder) THEN <<>>
  ELSE LET e == config.hooks[TriggerOrder[k]]
       IN IF ~e.present THEN validateEntries(config, k + 1)
          ELSE IF ~e.isArray
          THEN <<"hooks.", TriggerOrder[k], " must be an array">>
          ELSE IF validateHooks(TriggerOrder[k], e.list) # <<>>
          THEN validateHooks(TriggerOrder[k], e.list)
          ELSE validateEntries(config, k + 1)

validateConfig(config) ==
  IF ~config.hasHooks THEN <<"Configuration must have a 'hooks' object">>
  ELSE validateEntries(config, 1)

\* The two configuration sources at the repository root.
YmlFile(exists, parses, config) ==
  [exists |-> exists, parses |-> parses, config |-> config]

JsonFile(exists, parses, hasSection, config) ==
  [exists |-> exists, parses |-> parses, hasSection |-> hasSection,
   config |-> config]

Loaded(status, source, detail, config) ==
  [status |-> status, source |-> source, detail |-> detail, config |-> config]

SyntaxError == <<"syntax error">>

NotFoundMessage ==
  <<NotFoundPhrase,
    ". Create deno-hooks.yml or add deno-hooks config to deno.json">>

FailedToParse(path, message) == <<"Failed to parse ", path, ": ">> \o message

\* Mutant: deno.json is tried first.
loadConfig_JsonFirst(y, j) ==
  IF j.exists /\ j.parses /\ j.hasSection /\ validateConfig(j.config) = <<>>
  THEN Loaded("ok", "json", <<>>, j.config)
  ELSE IF y.exists /\ y.parses /\ validateConfig(y.config) = <<>>
  THEN Loaded("ok", "yml", <<>>, y.config)
  ELSE IF y.exists \/ j.exists
  THEN Loaded("invalid", "yml", FailedToParse("deno-hooks.yml", SyntaxError),
              NoConfig)
  ELSE Loaded("not-found", "none", NotFoundMessage, NoConfig)

\* Mutant: a deno-hooks.yml that fails falls back to deno.json.
loadConfig_FallsBack(y, j) ==
  IF y.exists /\ y.parses /\ validateConfig(y.config) = <<>>
  THEN Loaded("ok", "yml", <<>>, y.config)
  ELSE IF j.exists /\ j.parses /\ j.hasSection
          /\ validateConfig(j.config) = <<>>
  THEN Loaded("ok", "json", <<>>, j.config)
  ELSE IF y.exists \/ (j.exists /\ (~j.parses \/ j.hasSection))
  THEN Loaded("invalid", "yml", FailedToParse("deno-hooks.yml", SyntaxError),
              NoConfig)
  ELSE Loaded("not-found", "none", NotFoundMessage, NoConfig)

\* Mutant: a deno.json that cannot be parsed counts as no source.
loadConfig_MalformedJsonIgnored(y, j) ==
  IF y.exists
  THEN IF ~y.parses \/ validateConfig(y.config) # <<>>
       THEN Loaded("invalid", "yml",
                   FailedToParse("deno-hooks.yml", SyntaxError), NoConfig)
       ELSE Loaded("ok", "yml", <<>>, y.config)
  ELSE IF j.exists /\ j.parses /\ j.hasSection
  THEN IF validateConfig(j.config) # <<>>
       THEN Loaded("invalid", "json",
                   FailedToParse("deno.json", validateConfig(j.config)),
                   NoConfig)
       ELSE Loaded("ok", "json", <<>>, j.config)
  ELSE Loaded("not-found", "none", NotFoundMessage, NoConfig)

\* loadConfig: status "ok" with the configuration, else the error thrown:
\* "invalid" (Failed to parse <path>: <message>) or "not-found"; detail is
\* the message of the error.
loadConfig(y, j) ==
  IF y.exists
  THEN IF ~y.parses
       THEN Loaded("invalid", "yml", FailedToParse("deno-hooks.yml", SyntaxError),
                   NoConfig)
       ELSE IF validateConfig(y.config) # <<>>
       THEN Loaded("invalid", "yml",
                   FailedToParse("deno-hooks.yml", validateConfig(y.config)),
                   NoConfig)
       ELSE Loaded("ok", "yml", <<>>, y.config)
  ELSE IF j.exists
  THEN IF ~j.parses
       THEN Loaded("invalid", "json", FailedToParse("deno.json", SyntaxError),
                   NoConfig)
       ELSE IF j.hasSection
       THEN IF validateConfig(j.config) # <<>>
            THEN Loaded("invalid", "json",
                        FailedToParse("deno.json", validateConfig(j.config)),
                        NoConfig)
            ELSE Loaded("ok", "json", <<>>, j.config)
       ELSE Loaded("not-found", "none", NotFoundMessage, NoConfig)
  ELSE Loaded("not-found", "none", NotFoundMessage, NoConfig)

\* Mutant: the list of the first declared trigger, whatever the name.
getHooksForTrigger_FirstDeclared(config, hookName_) ==
  IF config.hooks[PreCommit].present THEN config.hooks[PreCommit].list
  ELSE IF config.hooks[PrePush].present THEN config.hooks[PrePush].list
  ELSE <<>>

getHooksForTrigger(config, hookName_) ==
  IF hookName_ \in Triggers /\ config.hooks[hookName_].present
  THEN config.hooks[hookName_].list
  ELSE <<>>

\* ------------------------------------------------------- the file system
YmlAbsent == YmlFile(FALSE, FALSE, NoConfig)
JsonAbsent == JsonFile(FALSE, FALSE, FALSE, NoConfig)

YmlFiles ==
  {YmlAbsent, YmlFile(TRUE, FALSE, NoConfig)}
  \cup {YmlFile(TRUE, TRUE, c) : c \in Configs}

JsonConfigs ==
  { Config(TRUE, Entry(TRUE, TRUE, <<Hook("test", "", "deno-test", NoPattern, NoPattern, FALSE)>>),
           AbsentEntry),
    Config(TRUE, AbsentEntry,
           Entry(TRUE, TRUE, <<Hook("norun", "", "", NoPattern, NoPattern, FALSE)>>)) }

JsonFiles ==
  {JsonAbsent, JsonFile(TRUE, FALSE, FALSE, NoConfig),
   JsonFile(TRUE, TRUE, FALSE, NoConfig)}
  \cup {JsonFile(TRUE, TRUE, TRUE, c) : c \in JsonConfigs}

\* The staged paths, in the order git lists them: nothing, one path, or
\* every path of the work tree.
StagedLists ==
  {<<>>, AllFiles} \cup {<<AllFiles[i]>> : i \in 1..Len(AllFiles)}

\* ------------------------------------------------------ version strings
\* The longest clock reading (epoch seconds) and dev number of a version.
MaxEpoch == 2

\* The most prerelease suffixes of the version deno.json starts with.
MaxSuffixes == 2

\* The most commands of the version script run one after the other.
MaxRuns == 2

\* A version string is the sequence of its pieces: "0.2.1" is <<Core(0,2,1)>>
\* and "0.2.1-rc.1-dev.7" is <<Core(0,2,1), Pre(1), Dev(7)>>.
Core(major, minor, patch) ==
  [k |-> "core", major |-> major, minor |-> minor, n |-> patch]

\* "-dev.<n>", n written in decimal digits
Dev(n) == [k |-> "dev", major |-> 0, minor |-> 0, n |-> n]

\* "-rc.<n>"
Pre(n) == [k |-> "pre", major |-> 0, minor |-> 0, n |-> n]

\* The "v" of a tag name.
VPrefix == [k |-> "v", major |-> 0, minor |-> 0, n |-> 0]

\* `v${version}`
TagName(version_) == <<VPrefix>> \o version_

\* version.match(/^(.+)-dev\.(\d+)$/): <<>> for null, else the two groups.
\* The string has to end with "-dev." and digits, after at least one other
\* character.
DevMatch(version_) ==
  IF Len(version_) >= 2 /\ version_[Len(version_)].k = "dev"
  THEN <<SubSeq(version_, 1, Len(version_) - 1), version_[Len(version_)].n>>
  ELSE <<>>

isDev(version_) == DevMatch(version_) # <<>>

\* Mutant: the dev suffix is kept.
getStableBase_KeepsSuffix(version_) == version_

getStableBase(version_) ==
  IF DevMatch(version_) # <<>> THEN DevMatch(version_)[1] ELSE version_

\* version.includes("-")
IncludesDash(version_) ==
  \E i \in 1..Len(version_) : version_[i].k \in {"dev", "pre"}

\* bumpStableVersion / bumpVersion return a version (they throw otherwise)
CanBump(version_) ==
  /\ ~IncludesDash(version_)
  /\ Len(version_) = 1
  /\ version_[1].k = "core"

BumpTypes == {"patch", "minor", "major"}

bumpStableVersion(version_, type) ==
  LET c == version_[1] IN
  CASE type = "major" -> <<Core(c.major + 1, 0, 0)>>
    [] type = "minor" -> <<Core(c.major, c.minor + 1, 0)>>
    [] OTHER -> <<Core(c.major, c.minor, c.n + 1)>>

getTimestampDevVersion(currentVersion, epochSeconds) ==
  Append(getStableBase(currentVersion), Dev(epochSeconds))

getNextDevVersion(currentVersion) ==
  IF DevMatch(currentVersion) # <<>>
  THEN Append(DevMatch(currentVersion)[1], Dev(DevMatch(currentVersion)[2] + 1))
  ELSE Append(currentVersion, Dev(1))

SuffixTokens == {Dev(1), Pre(1)}

SuffixLists == UNION {[1..m -> SuffixTokens] : m \in 0..MaxSuffixes}

\* The versions deno.json starts with: a release with up to MaxSuffixes
\* prerelease suffixes, and the string "-dev.1" that has nothing before its
\* dev suffix.
Versions ==
  {<<Core(0, 2, 1)>> \o s : s \in SuffixLists} \cup {<<Dev(1)>>}

\* The two copies of the version script.
Variants == {"part_004", "version.ts"}

\* ------------------------------------------------------------- run state
VARIABLES
  yml,        \* deno-hooks.yml at the repository root
  json,       \* deno.json at the repository root
  pc,         \* position of run(): idle, gitroot, load, staged, loop, exec, done
  hookName,   \* the trigger run() was called with
  hooks,      \* getHooksForTrigger(config, hookName)
  files,      \* the candidate files of the run
  idx,        \* position of the for-loop in hooks
  results,    \* the results array: <<[id, success]>>
  calls,      \* the contexts handed to executeHook, in call order
  skipped,    \* the hooks printed as "no matching files"
  failed,     \* the identities printed in the failure summary
  exitCode,   \* the value run() returned (-1: none yet)
  error,      \* the error caught at the top level ("": none)
  os,         \* Deno.build.os
  hooksDir,   \* .git/hooks exists
  scripts,    \* the files of .git/hooks, by trigger name
  ipc,        \* position of install(): idle, gitroot, load, create, reload,
              \* ensure, write, chmod, done, failed
  yes,        \* options.yes
  config,     \* the local "config" of install()
  caught,     \* message of the error caught around the first loadConfig
  thrown,     \* message of the error install() rejected with
  installIdx, \* position of the installHook loop in hookNames
  spc,        \* position of the shell running a hook script: idle,
              \* running, exited
  strigger,   \* the trigger whose script the shell runs
  spos,       \* the line the shell is at
  errexit,    \* the shell's -e option
  sran,       \* the commands the shell ran, in order: <<[line, ok]>>
  printed,    \* the success marker was printed
  sstatus,    \* exit status of the script (-1: none yet)
  variant,    \* the copy of the version script that is run
  version,    \* the "version" of deno.json
  clean,      \* git status --porcelain prints nothing
  tags,       \* the tags of the local repository
  remoteTags, \* the tags of origin
  commits,    \* the versions committed by the script, oldest first
  pushed,     \* how many of these commits origin has
  now,        \* the clock, in epoch seconds
  vpc,        \* position of the version script: idle, status, exists,
              \* update, commit, create, push, cleanup, exited
  vcmd,       \* the command of the version script ("": none)
  current,    \* the version read by getCurrentVersion()
  newVersion, \* the version the command goes to
  tagName,    \* the tag the command creates
  verror,     \* the failure the command reported ("": none)
  vstatus,    \* exit status of the version script (-1: none yet)
  vruns       \* the commands run so far

fsVars == <<yml, json>>

runVars == <<pc, hookName, hooks, files, idx, results, calls, skipped, failed,
             exitCode, error>>

instVars == <<ipc, yes, config, caught, thrown, installIdx>>

shVars == <<spc, strigger, spos, errexit, sran, printed, sstatus>>

gitVars == <<version, clean, tags, remoteTags, commits, pushed>>

verLocals == <<vpc, vcmd, current, newVersion, tagName, verror, vstatus>>

verVars == <<variant, gitVars, now, verLocals, vruns>>

\* Everything run() leaves alone.
restVars == <<fsVars, os, hooksDir, scripts, instVars, shVars, verVars>>

vars == <<fsVars, runVars, os, hooksDir, scripts, instVars, shVars, verVars>>

Identity(hook) == IF hook.name # "" THEN hook.name ELSE hook.id

\* Mutant: the exclude pattern is not applied.
MatchedFiles_NoExclude(hook, fs) ==
  IF hook.glob # <<>> /\ Len(fs) > 0 THEN filterFiles(fs, hook.glob) ELSE fs

\* The file list of one loop iteration (matchedFiles before the skip test).
MatchedFiles(hook, fs) ==
  IF hook.glob # <<>> /\ Len(fs) > 0
  THEN LET m == filterFiles(fs, hook.glob)
       IN IF hook.exclude # <<>>
          THEN SelectSeq(m, LAMBDA f : ~isExcluded(f, <<hook.exclude>>))
          ELSE m
  ELSE fs

\* Mutant: a hook is never skipped.
ShouldSkip_Never(hook, fs) == FALSE

\* Mutant: the skip test is made outside the glob block.
ShouldSkip_AnyEmpty(hook, fs) ==
  Len(MatchedFiles(hook, fs)) = 0 /\ hook.pass_filenames

\* The test of "continue": inside the glob block, no file left and
\* pass_filenames set.
ShouldSkip(hook, fs) ==
  /\ hook.glob # <<>> /\ Len(fs) > 0
  /\ Len(MatchedFiles(hook, fs)) = 0
  /\ hook.pass_filenames

\* Mutant: the filter keeps the passing results.
FailedIds_Passing(rs) ==
  LET f == SelectSeq(rs, LAMBDA r : r.success)
  IN [k \in 1..Len(f) |-> f[k].id]

FailedIds(rs) ==
  LET f == SelectSeq(rs, LAMBDA r : ~r.success)
  IN [k \in 1..Len(f) |-> f[k].id]

RunLocalsInit ==
  /\ hookName = ""
  /\ hooks = <<>>
  /\ files = <<>>
  /\ idx = 1
  /\ results = <<>>
  /\ calls = <<>>
  /\ skipped = <<>>
  /\ failed = <<>>
  /\ exitCode = -1
  /\ error = ""

\* The deno-hooks.yml files that declare at most one hook.
SmallYmlFiles ==
  {y \in YmlFiles :
     /\ y.exists /\ y.parses
     /\ Len(y.config.hooks[PreCommit].list)
          + Len(y.config.hooks[PrePush].list) <= 1}

\* The roots of the model: every deno-hooks.yml alone, every deno.json
\* without a readable deno-hooks.yml, and the small deno-hooks.yml files
\* next to every deno.json.
Sources ==
  (YmlFiles \X {JsonAbsent})
  \cup ({YmlAbsent, YmlFile(TRUE, FALSE, NoConfig)} \X JsonFiles)
  \cup (SmallYmlFiles \X JsonFiles)

\* A file of .git/hooks: absent, or its lines and its executable bit.
NoScript == [present |-> FALSE, lines |-> <<>>, executable |-> FALSE]

NoScripts == [t \in Triggers |-> NoScript]

InstallLocalsInit ==
  /\ ipc = "idle"
  /\ yes = FALSE
  /\ config = NoConfig
  /\ caught = <<>>
  /\ thrown = <<>>
  /\ installIdx = 1

ShellInit ==
  /\ spc = "idle"
  /\ strigger = ""
  /\ spos = 1
  /\ errexit = FALSE
  /\ sran = <<>>
  /\ printed = FALSE
  /\ sstatus = -1

VersionLocalsInit ==
  /\ vpc = "idle"
  /\ vcmd = ""
  /\ current = <<>>
  /\ newVersion = <<>>
  /\ tagName = <<>>
  /\ verror = ""
  /\ vstatus = -1
  /\ vruns = 0

\* The version script is not run: a clean repository at release 0.2.1.
VersionIdle ==
  /\ variant = "part_004"
  /\ version = <<Core(0, 2, 1)>>
  /\ clean = TRUE
  /\ tags = {}
  /\ remoteTags = {}
  /\ commits = <<>>
  /\ pushed = 0
  /\ now = 1
  /\ VersionLocalsInit

\* The roots run() is studied on: no hook script is involved.
Init ==
  /\ \E s \in Sources : yml = s[1] /\ json = s[2]
  /\ pc = "idle"
  /\ RunLocalsInit
  /\ os = "linux"
  /\ hooksDir = FALSE
  /\ scripts = NoScripts
  /\ InstallLocalsInit
  /\ ShellInit
  /\ VersionIdle

\* return <code> from inside the try block
Return(code) ==
  /\ pc' = "done"
  /\ exitCode' = code

\* Mutant: no catch block, the exception leaves run().
Catch_Propagates(e) ==
  /\ pc' = "thrown"
  /\ error' = e
  /\ UNCHANGED exitCode

\* the catch block of run(): report the error, return 1
Catch(e) ==
  /\ pc' = "done"
  /\ error' = e
  /\ exitCode' = 1

\* run(hookName) is called.
RunStart ==
  /\ pc = "idle"
  /\ \E t \in HookNames : hookName' = t
  /\ pc' = "gitroot"
  /\ UNCHANGED <<restVars, hooks, files, idx, results, calls, skipped, failed,
                 exitCode, error>>

\* const gitRoot = await getGitRoot()
GetGitRoot ==
  /\ pc = "gitroot"
  /\ \E ok \in BOOLEAN :
       IF ok THEN pc' = "load" /\ UNCHANGED <<exitCode, error>>
       ELSE Catch("not-a-repository")
  /\ UNCHANGED <<restVars, hookName, hooks, files, idx, results, calls, skipped,
                 failed>>

\* Mutant: no early return when the trigger has no hooks.
LoadConfig_NoEarlyReturn ==
  /\ pc = "load"
  /\ LET r == loadConfig(yml, json)
         hs == getHooksForTrigger(r.config, hookName)
     IN IF r.status # "ok"
        THEN Catch(r.status) /\ UNCHANGED hooks
        ELSE /\ hooks' = hs
             /\ pc' = IF hookName = PreCommit THEN "staged" ELSE "loop"
             /\ UNCHANGED <<exitCode, error>>
  /\ UNCHANGED <<restVars, hookName, files, idx, results, calls, skipped, failed>>

\* Mutant: a missing configuration counts as "no hooks": return 0.
LoadConfig_NotFoundIsEmpty ==
  /\ pc = "load"
  /\ LET r == loadConfig(yml, json)
         hs == getHooksForTrigger(r.config, hookName)
     IN IF r.status = "invalid"
        THEN Catch(r.status) /\ UNCHANGED hooks
        ELSE IF Len(hs) = 0
        THEN Return(0) /\ UNCHANGED <<hooks, error>>
        ELSE /\ hooks' = hs
             /\ pc' = IF hookName = PreCommit THEN "staged" ELSE "loop"
             /\ UNCHANGED <<exitCode, error>>
  /\ UNCHANGED <<restVars, hookName, files, idx, results, calls, skipped, failed>>

\* config = await loadConfig(gitRoot); hooks = getHooksForTrigger(...);
\* return 0 when there are none.
LoadConfig ==
  /\ pc = "load"
  /\ LET r == loadConfig(yml, json)
         hs == getHooksForTrigger(r.config, hookName)
     IN IF r.status # "ok"
        THEN Catch(r.status) /\ UNCHANGED hooks
        ELSE IF Len(hs) = 0
        THEN Return(0) /\ UNCHANGED <<hooks, error>>
        ELSE /\ hooks' = hs
             /\ pc' = IF hookName = PreCommit THEN "staged" ELSE "loop"
             /\ UNCHANGED <<exitCode, error>>
  /\ UNCHANGED <<restVars, hookName, files, idx, results, calls, skipped, failed>>

\* Mutant: no early return on an empty staged set.
GetStagedFiles_NoEarlyReturn ==
  /\ pc = "staged"
  /\ \E s \in StagedLists : files' = s
  /\ pc' = "loop"
  /\ UNCHANGED <<restVars, hookName, hooks, idx, results, calls, skipped, failed,
                 exitCode, error>>

\* files = await getStagedFiles(); return 0 when there are none.
GetStagedFiles ==
  /\ pc = "staged"
  /\ \E s \in StagedLists :
       /\ files' = s
       /\ IF Len(s) = 0 THEN Return(0) ELSE pc' = "loop" /\ UNCHANGED exitCode
  /\ UNCHANGED <<restVars, hookName, hooks, idx, results, calls, skipped, failed,
                 error>>

\* getStagedFiles() throws (git diff failed).
GetStagedFilesFails ==
  /\ pc = "staged"
  /\ Catch("git-diff-failed")
  /\ UNCHANGED <<restVars, hookName, hooks, files, idx, results, calls, skipped,
                 failed>>

\* Mutant: a skipped hook is recorded as a success.
SkipHook_PushesResult ==
  /\ pc = "loop"
  /\ idx <= Len(hooks)
  /\ ShouldSkip(hooks[idx], files)
  /\ skipped' = Append(skipped, idx)
  /\ results' = Append(results, [id |-> Identity(hooks[idx]),
                                 success |-> TRUE])
  /\ idx' = idx + 1
  /\ UNCHANGED <<restVars, pc, hookName, hooks, files, calls, failed,
                 exitCode, error>>

\* One loop iteration that ends in "continue": no matching files.
SkipHook ==
  /\ pc = "loop"
  /\ idx <= Len(hooks)
  /\ ShouldSkip(hooks[idx], files)
  /\ skipped' = Append(skipped, idx)
  /\ idx' = idx + 1
  /\ UNCHANGED <<restVars, pc, hookName, hooks, files, results, calls, failed,
                 exitCode, error>>

\* Mutant: the filtered list replaces the candidate files of the run.
StartHook_NarrowsFiles ==
  /\ pc = "loop"
  /\ idx <= Len(hooks)
  /\ ~ShouldSkip(hooks[idx], files)
  /\ calls' = Append(calls, [hook |-> idx, config |-> hooks[idx],
                             files |-> MatchedFiles(hooks[idx], files)])
  /\ files' = MatchedFiles(hooks[idx], files)
  /\ pc' = "exec"
  /\ UNCHANGED <<restVars, hookName, hooks, idx, results, skipped, failed,
                 exitCode, error>>

\* One loop iteration up to the call of executeHook.
StartHook ==
  /\ pc = "loop"
  /\ idx <= Len(hooks)
  /\ ~ShouldSkip(hooks[idx], files)
  /\ calls' = Append(calls, [hook |-> idx, config |-> hooks[idx],
                             files |-> MatchedFiles(hooks[idx], files)])
  /\ pc' = "exec"
  /\ UNCHANGED <<restVars, hookName, hooks, files, idx, results, skipped, failed,
                 exitCode, error>>

\* Mutant: results.unshift instead of results.push.
PushResult_Front(rs, r) == <<r>> \o rs

\* results.push({ id, result })
PushResult(rs, r) == Append(rs, r)

\* Mutant: a failing hook breaks the loop.
FinishHook_StopOnFailure ==
  /\ pc = "exec"
  /\ \E success \in BOOLEAN :
       /\ results' = PushResult(results, [id |-> Identity(hooks[idx]),
                                          success |-> success])
       /\ idx' = IF success THEN idx + 1 ELSE Len(hooks) + 1
  /\ pc' = "loop"
  /\ UNCHANGED <<restVars, hookName, hooks, files, calls, skipped, failed,
                 exitCode, error>>

\* executeHook returns; the result is pushed and displayed.
FinishHook ==
  /\ pc = "exec"
  /\ \E success \in BOOLEAN :
       results' = PushResult(results, [id |-> Identity(hooks[idx]),
                                      success |-> success])
  /\ idx' = idx + 1
  /\ pc' = "loop"
  /\ UNCHANGED <<restVars, hookName, hooks, files, calls, skipped, failed,
                 exitCode, error>>

\* executeHook rejects: the exception leaves the loop.
HookThrows ==
  /\ pc = "exec"
  /\ Catch("hook-exception")
  /\ UNCHANGED <<restVars, hookName, hooks, files, idx, results, calls, skipped,
                 failed>>

\* Mutant: at the end of the loop the hooks are run again.
Summary_Restarts ==
  /\ pc = "loop"
  /\ idx > Len(hooks)
  /\ idx' = 1
  /\ results' = <<>>
  /\ calls' = <<>>
  /\ skipped' = <<>>
  /\ UNCHANGED <<restVars, pc, hookName, hooks, files, failed, exitCode,
                 error>>

\* The loop is over: summary and return.
Summary ==
  /\ pc = "loop"
  /\ idx > Len(hooks)
  /\ failed' = FailedIds(results)
  /\ Return(IF Len(FailedIds(results)) = 0 THEN 0 ELSE 1)
  /\ UNCHANGED <<restVars, hookName, hooks, files, idx, results, calls, skipped,
                 error>>

\* The caller has the exit code; the next run starts from scratch.
RunEnd ==
  /\ pc = "done"
  /\ pc' = "idle"
  /\ hookName' = ""
  /\ hooks' = <<>>
  /\ files' = <<>>
  /\ idx' = 1
  /\ results' = <<>>
  /\ calls' = <<>>
  /\ skipped' = <<>>
  /\ failed' = <<>>
  /\ exitCode' = -1
  /\ error' = ""
  /\ UNCHANGED restVars

\* ---------------------------------------------------------------- install
\* The elements of the lists install() is studied on: hook objects, hook
\* objects without run (one of them with the phrase install() looks for as
\* its id), and bare command strings.
InstallPool ==
  { Hook("test", "", "deno-test", NoPattern, NoPattern, FALSE),
    Hook("lint", "Lint", "deno-lint", G_js_ts, G_t_ts, TRUE),
    Hook("norun", "", "", NoPattern, NoPattern, FALSE),
    Hook(NotFoundPhrase, "", "", NoPattern, NoPattern, FALSE),
    Command("deno task fmt"),
    Command("deno task lint") }

InstallLists(n) == UNION {[1..m -> InstallPool] : m \in 0..n}

InstallConfigs ==
  { Config(TRUE, a, b) :
      a \in {AbsentEntry} \cup {Entry(TRUE, TRUE, l) : l \in InstallLists(MaxCommands)},
      b \in {AbsentEntry} \cup {Entry(TRUE, TRUE, <<e>>) : e \in InstallPool} }

\* The file createDefaultConfig writes.
DefaultConfig ==
  Config(TRUE,
         Entry(TRUE, TRUE, <<Command("deno task fmt"), Command("deno task lint")>>),
         Entry(TRUE, TRUE, <<Command("deno task test")>>))

InstallSources ==
  ({YmlFile(TRUE, TRUE, c) : c \in InstallConfigs} \X {JsonAbsent})
  \cup ({YmlAbsent, YmlFile(TRUE, FALSE, NoConfig)} \X JsonFiles)

\* `${cmd}` of a list element: a string as it is, an object as
\* "[object Object]".
Render(e) == IF e.text # "" THEN e.text ELSE "[object Object]"

Shebang == "#!/bin/sh"
SetE == "set -e"
EchoMarker == "echo All hooks passed"

\* Mutant: the script has no "set -e" line.
generateHookScript_NoSetE(commands) ==
  <<Shebang>> \o [i \in 1..Len(commands) |-> Render(commands[i])]
  \o <<EchoMarker>>

\* The lines of the generated script that are neither comments nor blank.
generateHookScript(commands) ==
  <<Shebang, SetE>> \o [i \in 1..Len(commands) |-> Render(commands[i])]
  \o <<EchoMarker>>

\* A pre-push script left by an install made under an earlier
\* configuration, which had two pre-push hooks.
EarlierScript(os_) ==
  [present |-> TRUE,
   lines |-> generateHookScript(
               <<Hook("test", "", "deno-test", NoPattern, NoPattern, FALSE),
                 Hook("lint", "Lint", "deno-lint", G_js_ts, G_t_ts, TRUE)>>),
   executable |-> os_ # "windows"]

\* The roots install() is studied on: a repository without .git/hooks, with
\* an empty .git/hooks, or with the pre-push script of an earlier install.
InitInstall ==
  /\ \E s \in InstallSources : yml = s[1] /\ json = s[2]
  /\ os \in {"linux", "windows"}
  /\ \/ hooksDir \in BOOLEAN /\ scripts = NoScripts
     \/ /\ hooksDir = TRUE
        /\ scripts = [NoScripts EXCEPT ![PrePush] = EarlierScript(os)]
  /\ pc = "idle"
  /\ RunLocalsInit
  /\ InstallLocalsInit
  /\ ShellInit
  /\ VersionIdle

\* Object.keys(config.hooks)
hookNamesOf(c) == SelectSeq(TriggerOrder, LAMBDA t : c.hooks[t].present)

\* message.includes(phrase).  A phrase lies inside one fragment: the
\* templates and the interpolated values of the model do not share parts
\* of it.
Includes(message, phrase) == \E i \in 1..Len(message) : message[i] = phrase

\* The message of the error getGitRoot throws.
GitRootError == <<"Failed to get git root: ", "not a git repository">>

\* install() rejects with an error of this message.
Throw(message) ==
  /\ ipc' = "failed"
  /\ thrown' = message

\* install(options) is called; no hook script is running.
InstallStart ==
  /\ ipc = "idle" /\ spc = "idle"
  /\ \E y \in BOOLEAN : yes' = y
  /\ ipc' = "gitroot"
  /\ UNCHANGED <<fsVars, runVars, verVars, os, hooksDir, scripts, shVars, config,
                 caught, thrown, installIdx>>

\* const gitRoot = await getGitRoot()
InstallGetGitRoot ==
  /\ ipc = "gitroot"
  /\ \E ok \in BOOLEAN :
       IF ok THEN ipc' = "load" /\ UNCHANGED thrown
       ELSE Throw(GitRootError)
  /\ UNCHANGED <<fsVars, runVars, verVars, os, hooksDir, scripts, shVars, yes, config,
                 caught, installIdx>>

\* config = await loadConfig(gitRoot), and the synchronous part of the catch
\* block: the test of the message, options.yes, the prompt.
InstallLoadConfig ==
  /\ ipc = "load"
  /\ LET r == loadConfig(yml, json)
     IN IF r.status = "ok"
        THEN /\ config' = r.config
             /\ ipc' = "ensure"
             /\ UNCHANGED <<caught, thrown>>
        ELSE /\ caught' = r.detail
             /\ UNCHANGED config
             /\ IF Includes(r.detail, NotFoundPhrase)
                THEN \E shouldCreate \in (IF yes THEN {TRUE} ELSE BOOLEAN) :
                       IF shouldCreate
                       THEN ipc' = "create" /\ UNCHANGED thrown
                       ELSE Throw(<<NotFoundPhrase,
                                    ". Create deno-hooks.yml or add deno.json config">>)
                ELSE Throw(r.detail)
  /\ UNCHANGED <<fsVars, runVars, verVars, os, hooksDir, scripts, shVars, yes,
                 installIdx>>

\* await createDefaultConfig(gitRoot)
InstallCreateDefaultConfig ==
  /\ ipc = "create"
  /\ yml' = YmlFile(TRUE, TRUE, DefaultConfig)
  /\ ipc' = "reload"
  /\ UNCHANGED <<json, runVars, verVars, os, hooksDir, scripts, shVars, yes, config,
                 caught, thrown, installIdx>>

\* config = await loadConfig(gitRoot), inside the catch block
InstallReloadConfig ==
  /\ ipc = "reload"
  /\ LET r == loadConfig(yml, json)
     IN IF r.status = "ok"
        THEN config' = r.config /\ ipc' = "ensure" /\ UNCHANGED thrown
        ELSE Throw(r.detail) /\ UNCHANGED config
  /\ UNCHANGED <<fsVars, runVars, verVars, os, hooksDir, scripts, shVars, yes, caught,
                 installIdx>>

\* Mutant: the hook directory is emptied before the scripts are written.
InstallEnsureDir_Cleans ==
  /\ ipc = "ensure"
  /\ hooksDir' = TRUE
  /\ scripts' = NoScripts
  /\ installIdx' = 1
  /\ ipc' = "write"
  /\ UNCHANGED <<fsVars, runVars, verVars, os, shVars, yes, config, caught, thrown>>

\* await ensureDir(hooksDir)
InstallEnsureDir ==
  /\ ipc = "ensure"
  /\ hooksDir' = TRUE
  /\ installIdx' = 1
  /\ ipc' = "write"
  /\ UNCHANGED <<fsVars, runVars, verVars, os, scripts, shVars, yes, config, caught,
                 thrown>>

\* installHook up to await Deno.writeTextFile(hookPath, script): a new file
\* is not executable, an existing one keeps its mode.
InstallHookWrite ==
  /\ ipc = "write"
  /\ installIdx <= Len(hookNamesOf(config))
  /\ LET t == hookNamesOf(config)[installIdx]
     IN scripts' = [scripts EXCEPT ![t] =
                      [present |-> TRUE,
                       lines |-> generateHookScript(config.hooks[t].list),
                       executable |-> scripts[t].executable]]
  /\ IF os # "windows"
     THEN ipc' = "chmod" /\ UNCHANGED installIdx
     ELSE ipc' = "write" /\ installIdx' = installIdx + 1
  /\ UNCHANGED <<fsVars, runVars, verVars, os, hooksDir, shVars, yes, config, caught,
                 thrown>>

\* await Deno.chmod(hookPath, 0o755)
InstallHookChmod ==
  /\ ipc = "chmod"
  /\ LET t == hookNamesOf(config)[installIdx]
     IN scripts' = [scripts EXCEPT ![t].executable = TRUE]
  /\ installIdx' = installIdx + 1
  /\ ipc' = "write"
  /\ UNCHANGED <<fsVars, runVars, verVars, os, hooksDir, shVars, yes, config, caught,
                 thrown>>

\* The installHook loop is over: install() resolves.
InstallComplete ==
  /\ ipc = "write"
  /\ installIdx > Len(hookNamesOf(config))
  /\ ipc' = "done"
  /\ UNCHANGED <<fsVars, runVars, verVars, os, hooksDir, scripts, shVars, yes, config,
                 caught, thrown, installIdx>>

\* The caller has the outcome; the next install starts from scratch.
InstallEnd ==
  /\ ipc \in {"done", "failed"}
  /\ ipc' = "idle"
  /\ yes' = FALSE
  /\ config' = NoConfig
  /\ caught' = <<>>
  /\ thrown' = <<>>
  /\ installIdx' = 1
  /\ UNCHANGED <<fsVars, runVars, verVars, os, hooksDir, scripts, shVars>>

\* ------------------------------------------------- running a hook script
\* git runs .git/hooks/<trigger> with /bin/sh, one line at a time.
\* git starts the script of a trigger: the file is there and git can
\* execute it; no install is under way.
ScriptStart ==
  /\ spc = "idle" /\ ipc = "idle"
  /\ \E t \in Triggers :
       /\ scripts[t].present
       /\ scripts[t].executable \/ os = "windows"
       /\ strigger' = t
  /\ spc' = "running"
  /\ spos' = 1
  /\ UNCHANGED <<fsVars, runVars, verVars, os, hooksDir, scripts, instVars, errexit,
                 sran, printed, sstatus>>

\* The shell exits with this status.
Exit(status) ==
  /\ spc' = "exited"
  /\ sstatus' = status

\* The shell executes the line it is at: the shebang is a comment, "set -e"
\* sets the option, the echo prints the marker, any other line is a command
\* that succeeds or fails; a failure under -e ends the script.
ScriptStep ==
  /\ spc = "running"
  /\ spos <= Len(scripts[strigger].lines)
  /\ LET line == scripts[strigger].lines[spos]
     IN CASE line = Shebang ->
               /\ spos' = spos + 1
               /\ UNCHANGED <<spc, errexit, sran, printed, sstatus>>
          [] line = SetE ->
               /\ errexit' = TRUE
               /\ spos' = spos + 1
               /\ UNCHANGED <<spc, sran, printed, sstatus>>
          [] line = EchoMarker ->
               /\ printed' = TRUE
               /\ spos' = spos + 1
               /\ UNCHANGED <<spc, errexit, sran, sstatus>>
          [] OTHER ->
               \E ok \in BOOLEAN :
                 /\ sran' = Append(sran, [line |-> spos, ok |-> ok])
                 /\ IF ~ok /\ errexit
                    THEN Exit(1) /\ UNCHANGED spos
                    ELSE spos' = spos + 1 /\ UNCHANGED <<spc, sstatus>>
                 /\ UNCHANGED <<errexit, printed>>
  /\ UNCHANGED <<fsVars, runVars, verVars, os, hooksDir, scripts, instVars, strigger>>

\* End of file: the status is that of the last line, the echo.
ScriptExit ==
  /\ spc = "running"
  /\ spos > Len(scripts[strigger].lines)
  /\ Exit(0)
  /\ UNCHANGED <<fsVars, runVars, verVars, os, hooksDir, scripts, instVars, strigger,
                 spos, errexit, sran, printed>>

\* git has the status; the next script starts from scratch.
ScriptEnd ==
  /\ spc = "exited"
  /\ spc' = "idle"
  /\ strigger' = ""
  /\ spos' = 1
  /\ errexit' = FALSE
  /\ sran' = <<>>
  /\ printed' = FALSE
  /\ sstatus' = -1
  /\ UNCHANGED <<fsVars, runVars, verVars, os, hooksDir, scripts, instVars>>

Next ==
  \/ RunStart
  \/ GetGitRoot
  \/ LoadConfig
  \/ GetStagedFiles
  \/ GetStagedFilesFails
  \/ SkipHook
  \/ StartHook
  \/ FinishHook
  \/ HookThrows
  \/ Summary
  \/ RunEnd

Spec == Init /\ [][Next]_vars

\* The steps of run() that end when a collaborator call returns (getGitRoot,
\* loadConfig, getStagedFiles) or that run() takes on its own.  The return
\* of executeHook is not among them: nothing bounds the time a hook takes.
RunProgress ==
  \/ GetGitRoot
  \/ LoadConfig
  \/ GetStagedFiles
  \/ GetStagedFilesFails
  \/ SkipHook
  \/ StartHook
  \/ Summary

\* The roots termination is studied on.
LiveSources ==
  {s \in Sources :
     Len(s[1].config.hooks[PreCommit].list)
       + Len(s[1].config.hooks[PrePush].list) <= MaxLiveHooks}

InitLive ==
  /\ \E s \in LiveSources : yml = s[1] /\ json = s[2]
  /\ pc = "idle"
  /\ RunLocalsInit
  /\ os = "linux"
  /\ hooksDir = FALSE
  /\ scripts = NoScripts
  /\ InstallLocalsInit
  /\ ShellInit
  /\ VersionIdle

\* run() with every collaborator call returning.
SpecLive == InitLive /\ [][Next]_vars /\ WF_vars(RunProgress)

\* install() and the scripts it leaves in .git/hooks.
NextInstall ==
  \/ InstallStart
  \/ InstallGetGitRoot
  \/ InstallLoadConfig
  \/ InstallCreateDefaultConfig
  \/ InstallReloadConfig
  \/ InstallEnsureDir
  \/ InstallHookWrite
  \/ InstallHookChmod
  \/ InstallComplete
  \/ InstallEnd
  \/ ScriptStart
  \/ ScriptStep
  \/ ScriptExit
  \/ ScriptEnd

SpecInstall == InitInstall /\ [][NextInstall]_vars

\* Both flows on one repository, one command at a time: run(), install()
\* or a hook script starts only when nothing else is under way.
NextTool ==
  \/ ipc = "idle" /\ spc = "idle" /\ RunStart
  \/ GetGitRoot
  \/ LoadConfig
  \/ GetStagedFiles
  \/ GetStagedFilesFails
  \/ SkipHook
  \/ StartHook
  \/ FinishHook
  \/ HookThrows
  \/ Summary
  \/ RunEnd
  \/ pc = "idle" /\ InstallStart
  \/ InstallGetGitRoot
  \/ InstallLoadConfig
  \/ InstallCreateDefaultConfig
  \/ InstallReloadConfig
  \/ InstallEnsureDir
  \/ InstallHookWrite
  \/ InstallHookChmod
  \/ InstallComplete
  \/ InstallEnd
  \/ pc = "idle" /\ ScriptStart
  \/ ScriptStep
  \/ ScriptExit
  \/ ScriptEnd

SpecTool == InitInstall /\ [][NextTool]_vars

TypeOKInstall ==
  /\ ipc \in {"idle", "gitroot", "load", "create", "reload", "ensure",
              "write", "chmod", "done", "failed"}
  /\ spc \in {"idle", "running", "exited"}
  /\ sstatus \in {-1, 0, 1}
  /\ ipc # "idle" => spc = "idle"
  /\ ipc = "failed" <=> thrown # <<>>

TypeOK ==
  /\ pc \in {"idle", "gitroot", "load", "staged", "loop", "exec", "done"}
  /\ hookName \in HookNames \cup {""}
  /\ exitCode \in {-1, 0, 1}
  /\ idx \in 1..(Len(hooks) + 1)

\* ------------------------------------------------------------ properties
CalledIdx == {calls[k].hook : k \in 1..Len(calls)}

SkippedIdx == {skipped[k] : k \in 1..Len(skipped)}

\* run() returned from the summary: configuration loaded, at least one hook,
\* the loop went through every hook without an exception.
Aggregated ==
  pc = "done" /\ error = "" /\ Len(hooks) > 0 /\ idx > Len(hooks)

SomeFailure == \E k \in 1..Len(results) : ~results[k].success

\* C1: a run that reaches the summary returns 0 iff no recorded result has
\* success = false, and 1 otherwise; a run whose hooks were all skipped
\* returns 0.
ExitCodeIffNoFailure ==
  Aggregated =>
    /\ exitCode \in {0, 1}
    /\ (exitCode = 0) <=> ~SomeFailure
    /\ (results = <<>> => exitCode = 0)

ExitCodeIffNoFailure_Witness ==
  /\ Aggregated
  /\ exitCode = 1
  /\ skipped # <<>>
  /\ \E k \in 1..Len(results) : results[k].success
  /\ SomeFailure

\* The identities (name, else id) of the hooks whose execution failed, among
\* the first k executed hooks.
RECURSIVE FailingIdentities(_)
FailingIdentities(k) ==
  IF k = 0 THEN <<>>
  ELSE FailingIdentities(k - 1)
       \o (IF results[k].success THEN <<>>
           ELSE <<Identity(hooks[calls[k].hook])>>)

\* C2: a failing hook does not stop the run: the run ends only after every
\* declared hook was executed or skipped by the skip rule, the failure
\* summary lists exactly the identities of the failed hooks, and the exit
\* code is 1.
FailureDoesNotStopRun ==
  /\ (SomeFailure /\ pc = "done") => exitCode = 1
  /\ (SomeFailure /\ pc = "done" /\ error = "") =>
       /\ idx = Len(hooks) + 1
       /\ failed = FailingIdentities(Len(results))
  /\ \A i \in 1..Len(hooks) :
       i < idx =>
         \/ i \in SkippedIdx /\ i \notin CalledIdx /\ ShouldSkip(hooks[i], files)
         \/ i \in CalledIdx /\ i \notin SkippedIdx /\ ~ShouldSkip(hooks[i], files)
  /\ \A i \in CalledIdx \cup SkippedIdx : i < idx \/ (i = idx /\ pc \in {"exec", "done"})

FailureDoesNotStopRun_Witness ==
  /\ Aggregated
  /\ Len(hooks) = 3
  /\ Len(results) = 3
  /\ results[1].success /\ ~results[2].success /\ results[3].success
  /\ failed = <<Identity(hooks[2])>>
  /\ exitCode = 1

HasBadHook(c) ==
  \E t \in Triggers :
    /\ c.hooks[t].present
    /\ \E i \in 1..Len(c.hooks[t].list) :
         c.hooks[t].list[i].id = "" \/ c.hooks[t].list[i].run = ""

SelectedHasBadHook ==
  \/ yml.exists /\ yml.parses /\ HasBadHook(yml.config)
  \/ ~yml.exists /\ json.exists /\ json.parses /\ json.hasSection
     /\ HasBadHook(json.config)

GlobMatchesNone(i) ==
  /\ hookName = PreCommit
  /\ Len(files) > 0
  /\ hooks[i].pass_filenames
  /\ hooks[i].glob # <<>>
  /\ \A k \in 1..Len(files) : ~matches(files[k], hooks[i].glob)

\* C6: on a pre-commit run with staged files, a pass_filenames hook whose
\* glob matches no candidate is not executed, has no entry in the results,
\* and the exit code is decided by the other hooks alone.
UnmatchedGatedHookIsSkipped ==
  \A i \in 1..Len(hooks) :
    GlobMatchesNone(i) =>
      /\ i \notin CalledIdx
      /\ i < idx => i \in SkippedIdx
      /\ Len(results) <= Len(calls)
      /\ Aggregated =>
           ((exitCode = 1) <=>
              \E k \in 1..Len(results) :
                calls[k].hook # i /\ ~results[k].success)

UnmatchedGatedHookIsSkipped_Witness ==
  /\ Aggregated
  /\ exitCode = 0
  /\ \E i \in 1..Len(hooks) : GlobMatchesNone(i) /\ i \in SkippedIdx
  /\ results # <<>>

Visited(i) == i < idx \/ (i = idx /\ pc = "exec")

ExcludeAppliedWithoutGlob ==
  \A k \in 1..Len(calls) :
    LET h == calls[k].config
    IN h.glob = <<>> =>
         calls[k].files =
           IF h.exclude # <<>>
           THEN SelectSeq(files, LAMBDA f : ~matches(f, h.exclude))
           ELSE files

\* C9: on a pre-commit run the executor of a hook with a glob receives
\* exactly the candidates that match the glob and do not match the exclude
\* pattern, in candidate order.
GlobbedHookGetsItsMatches ==
  hookName = PreCommit =>
    \A k \in 1..Len(calls) :
      LET h == calls[k].config
      IN h.glob # <<>> =>
           calls[k].files =
             SelectSeq(files,
                       LAMBDA f : /\ matches(f, h.glob)
                                  /\ ~(h.exclude # <<>> /\ matches(f, h.exclude)))

GlobbedHookGetsItsMatches_Witness ==
  /\ hookName = PreCommit
  /\ files = AllFiles
  /\ \E k \in 1..Len(calls) :
       /\ calls[k].config.glob # <<>>
       /\ calls[k].config.exclude # <<>>
       /\ calls[k].files = <<F_a_ts>>

\* C10: a pre-commit run with configured hooks and no staged file returns 0
\* at once: the loop is never entered, no hook is executed, skipped or
\* recorded.
EmptyStagedReturnsZero ==
  /\ (hookName = PreCommit /\ pc \in {"loop", "exec"}) => Len(files) > 0
  /\ (hookName = PreCommit /\ pc = "done" /\ error = "" /\ Len(hooks) > 0
      /\ files = <<>>) =>
       /\ exitCode = 0
       /\ idx = 1
       /\ calls = <<>> /\ results = <<>> /\ skipped = <<>>

EmptyStagedReturnsZero_Witness ==
  /\ hookName = PreCommit
  /\ pc = "done"
  /\ error = ""
  /\ files = <<>>
  /\ exitCode = 0
  /\ Len(hooks) = 2
  /\ hooks[1].glob = <<>> /\ ~hooks[1].pass_filenames
  /\ hooks[2].glob # <<>> /\ hooks[2].pass_filenames

\* ---------------------------------------------- loading and selecting hooks
\* What loadConfig gives for the two sources of the repository root.
LoadedNow == loadConfig(yml, json)

\* run() is past its loadConfig call with a configuration in hand.
PastLoad == pc \in {"staged", "loop", "exec"} \/ (pc = "done" /\ error = "")

\* The structural rule of a configuration, stated on its own: a hooks
\* object whose declared triggers are arrays of elements with id and run.
WellFormed(c) ==
  /\ c.hasHooks
  /\ \A t \in Triggers :
       c.hooks[t].present =>
         /\ c.hooks[t].isArray
         /\ \A i \in 1..Len(c.hooks[t].list) :
              c.hooks[t].list[i].id # "" /\ c.hooks[t].list[i].run # ""

JsonSectionValid ==
  json.exists /\ json.parses /\ json.hasSection /\ WellFormed(json.config)

\* C11: when the loaded configuration declares no hooks for the requested
\* trigger (absent or empty list), run() returns 0 without querying the
\* staged files and without executing, skipping or recording any hook.
NoHooksReturnsZero ==
  (hookName # "" /\ LoadedNow.status = "ok"
   /\ getHooksForTrigger(LoadedNow.config, hookName) = <<>>) =>
    /\ pc \notin {"staged", "loop", "exec"}
    /\ files = <<>> /\ calls = <<>> /\ results = <<>> /\ skipped = <<>>
    /\ (pc = "done" /\ error = "") => exitCode = 0

NoHooksReturnsZero_Witness ==
  /\ pc = "done" /\ error = "" /\ exitCode = 0
  /\ hookName = PreCommit
  /\ LoadedNow.status = "ok"
  /\ ~LoadedNow.config.hooks[PreCommit].present
  /\ Len(LoadedNow.config.hooks[PrePush].list) > 0

\* C12: when deno-hooks.yml and the deno-hooks section of deno.json both
\* exist and are valid, the configuration of deno-hooks.yml is the one
\* loaded and run; deno.json is consulted only when deno-hooks.yml is absent.
YmlTakesPrecedence ==
  /\ (yml.exists /\ yml.parses /\ WellFormed(yml.config) /\ JsonSectionValid) =>
       /\ LoadedNow.status = "ok"
       /\ LoadedNow.source = "yml"
       /\ LoadedNow.config = yml.config
       /\ pc \in {"staged", "loop", "exec"} =>
            hooks = yml.config.hooks[hookName].list
  /\ LoadedNow.source = "json" => ~yml.exists

YmlTakesPrecedence_Witness ==
  /\ yml.exists /\ yml.parses /\ WellFormed(yml.config) /\ JsonSectionValid
  /\ pc = "loop" /\ hookName = PreCommit
  /\ hooks = yml.config.hooks[PreCommit].list
  /\ hooks # json.config.hooks[PreCommit].list

\* C13: loadConfig returns a configuration only when the whole of it is
\* well formed, and fails otherwise; a deno-hooks.yml that exists but does
\* not parse or is not well formed makes the load fail with the invalid-
\* configuration error even when deno.json holds a valid section.
LoadIsAllOrNothing ==
  LET r == LoadedNow
  IN
  /\ r.status = "ok" =>
       /\ WellFormed(r.config)
       /\ r.config = (IF yml.exists THEN yml.config ELSE json.config)
  /\ r.status # "ok" => r.config = NoConfig
  /\ (yml.exists /\ (~yml.parses \/ ~WellFormed(yml.config))) =>
       /\ r.status = "invalid"
       /\ r.source = "yml"
       /\ ~PastLoad
       /\ calls = <<>>
       /\ pc = "done" => error \in {"invalid", "not-a-repository"}

LoadIsAllOrNothing_Witness ==
  /\ yml.exists /\ yml.parses /\ ~WellFormed(yml.config)
  /\ JsonSectionValid
  /\ pc = "done" /\ error = "invalid" /\ exitCode = 1

\* No recognized source: no deno-hooks.yml, and deno.json absent or without
\* a deno-hooks section.
NoSource ==
  ~yml.exists /\ (~json.exists \/ (json.parses /\ ~json.hasSection))

\* The source loadConfig reads exists but is malformed or not well formed.
SourceBad ==
  \/ yml.exists /\ (~yml.parses \/ ~WellFormed(yml.config))
  \/ /\ ~yml.exists /\ json.exists
     /\ (~json.parses \/ (json.hasSection /\ ~WellFormed(json.config)))

\* C14: loadConfig fails with the configuration-not-found error exactly when
\* there is no recognized source, and with the invalid-configuration error
\* exactly when the source it reads exists but is malformed or fails
\* validation; run() reports the same error.
NotFoundIffNoSource ==
  /\ LET r == LoadedNow
     IN /\ r.status = "not-found" <=> NoSource
        /\ r.status = "invalid" <=> SourceBad
        /\ r.status = "not-found" => r.detail[1] = NotFoundPhrase
        /\ r.status = "invalid" => r.detail[1] = "Failed to parse "
  /\ (pc = "done" /\ error = "not-found") => NoSource
  /\ (pc = "done" /\ error = "invalid") => SourceBad
  /\ (pc = "done" /\ error = "") => ~NoSource /\ ~SourceBad

NotFoundIffNoSource_Witness ==
  /\ pc = "done" /\ error = "not-found"
  /\ ~yml.exists /\ json.exists /\ json.parses /\ ~json.hasSection

\* C15: getHooksForTrigger returns the hooks declared under the requested
\* trigger, in declared order, and the empty list for a trigger the
\* configuration does not declare; these are the hooks run() works on.
HooksForTriggerAsDeclared ==
  LET r == LoadedNow
  IN r.status = "ok" =>
       /\ \A n \in HookNames :
            LET hs == getHooksForTrigger(r.config, n)
            IN IF n \in Triggers /\ r.config.hooks[n].present
               THEN /\ Len(hs) = Len(r.config.hooks[n].list)
                    /\ \A i \in 1..Len(hs) : hs[i] = r.config.hooks[n].list[i]
               ELSE hs = <<>>
       /\ pc \in {"staged", "loop", "exec"} =>
            hooks = r.config.hooks[hookName].list

HooksForTriggerAsDeclared_Witness ==
  /\ pc = "loop" /\ hookName = PrePush
  /\ Len(hooks) = 2 /\ hooks[1] # hooks[2]
  /\ hooks = yml.config.hooks[PrePush].list
  /\ Len(yml.config.hooks[PreCommit].list) = 1
  /\ yml.config.hooks[PreCommit].list[1] \notin {hooks[1], hooks[2]}

\* C16: in a configuration loadConfig returned, the ids of the hooks under
\* one trigger are pairwise distinct.
HookIdsUnique ==
  PastLoad =>
    \A t \in Triggers :
      LET list == LoadedNow.config.hooks[t].list
      IN \A i, j \in 1..Len(list) : i # j => list[i].id # list[j].id

\* ------------------------------------------------ install and its scripts
\* A configuration in the command-list shape: every declared trigger is a
\* list of non-empty strings.
IsCommandList(c) ==
  /\ c.hasHooks
  /\ \A t \in Triggers :
       c.hooks[t].present =>
         /\ c.hooks[t].isArray
         /\ \A i \in 1..Len(c.hooks[t].list) : c.hooks[t].list[i].text # ""

\* install() is past its (last) loadConfig call.
InstallPastLoad == ipc \in {"ensure", "write", "chmod", "done", "failed"}

\* C17: a deno-hooks.yml in the command-list shape (as createDefaultConfig
\* writes it) is accepted by loadConfig: install() gets the configuration,
\* every element of which is a non-empty string, and does not fail on it.
CommandListsAccepted ==
  (yml.exists /\ yml.parses /\ IsCommandList(yml.config) /\ InstallPastLoad) =>
    IF ipc = "failed" THEN thrown = GitRootError
    ELSE /\ config = yml.config
         /\ IsCommandList(config)

\* The command of a list element: the string itself, or the hook's run.
CommandOf(e) == IF e.text # "" THEN e.text ELSE e.run

\* C18: after a successful install the hook directory exists and holds, for
\* each trigger of the configuration, a script that is executable (except
\* on Windows) and whose body is the fail-fast directive, the commands of
\* the trigger in declared order, and the success marker.
InstalledScriptsMatchConfig ==
  ipc = "done" =>
    /\ hooksDir
    /\ \A t \in Triggers :
         config.hooks[t].present =>
           /\ scripts[t].present
           /\ os # "windows" => scripts[t].executable
           /\ scripts[t].lines =
                <<Shebang, SetE>>
                \o [i \in 1..Len(config.hooks[t].list) |->
                      CommandOf(config.hooks[t].list[i])]
                \o <<EchoMarker>>

\* The lines of the running script that are commands of the configuration.
CommandLines ==
  {i \in 1..Len(scripts[strigger].lines) :
     scripts[strigger].lines[i] \notin {Shebang, SetE, EchoMarker}}

SomeCommandFailed == \E j \in 1..Len(sran) : ~sran[j].ok

\* C19: a script install() wrote runs its commands in order; at the first
\* command that fails it stops with a non-zero status, no later command
\* runs and the marker is not printed; the marker is printed and the status
\* is zero only when every command ran and succeeded.
ScriptIsFailFast ==
  spc # "idle" =>
    /\ \A j \in 1..Len(sran) :
         /\ sran[j].line \in CommandLines
         /\ Cardinality({i \in CommandLines : i <= sran[j].line}) = j
         /\ j < Len(sran) => sran[j].ok
    /\ SomeCommandFailed =>
         spc = "exited" /\ sstatus # 0 /\ ~printed
    /\ printed =>
         ~SomeCommandFailed /\ Len(sran) = Cardinality(CommandLines)
    /\ spc = "exited" => (sstatus = 0 <=> printed)

ScriptIsFailFast_Witness ==
  /\ spc = "exited" /\ sstatus = 1 /\ ~printed
  /\ Cardinality(CommandLines) = 2
  /\ Len(sran) = 1 /\ ~sran[1].ok
  /\ sran[1].line = 3

\* C20: once the loadConfig call of install() failed on a source that
\* exists ("Failed to parse ..."), no step of that install changes the file
\* system: no configuration file, no hook directory, no script is written.
InvalidSourceNoSideEffect ==
  [][(ipc # "idle" /\ caught # <<>> /\ caught[1] = "Failed to parse ") =>
       /\ yml' = yml /\ json' = json
       /\ hooksDir' = hooksDir /\ scripts' = scripts]_vars

\* install() found no configuration, took the create-default branch and
\* has written deno-hooks.yml.
DefaultWritten ==
  /\ caught = NotFoundMessage
  /\ yml.exists
  /\ ipc \in {"reload", "ensure", "write", "chmod", "done", "failed"}

\* C21: when install() found no configuration and the default is accepted
\* (yes, or the prompt), it writes the default deno-hooks.yml, loads it and
\* completes with one script for pre-commit and one for pre-push, holding
\* the default commands.
DefaultInstallCompletes ==
  DefaultWritten =>
    /\ yml = YmlFile(TRUE, TRUE, DefaultConfig)
    /\ ipc # "failed"
    /\ ipc \in {"ensure", "write", "chmod", "done"} => config = DefaultConfig
    /\ ipc = "done" =>
         \A t \in Triggers :
           /\ scripts[t].present
           /\ scripts[t].lines = generateHookScript(DefaultConfig.hooks[t].list)

\* The install() under way met no configuration source: there is none now,
\* or its first loadConfig found none.
InstallMetNoSource == ipc # "idle" /\ (NoSource \/ caught = NotFoundMessage)

RunTerminatesUnlessHookHangs ==
  /\ ([](pc = "exec" => <>(pc # "exec")))
       => [](pc = "gitroot" => <>(pc = "done" /\ exitCode \in {0, 1}))
  /\ [](pc = "exec" =>
         /\ exitCode = -1
         /\ Len(calls) > 0 /\ calls[Len(calls)].hook = idx
         /\ \A c \in 1..Len(calls) : calls[c].hook <= idx)
  /\ [][(pc = "exec" /\ pc' # "exec") =>
         /\ idx' \in {idx, idx + 1}
         /\ \/ pc' = "loop" /\ Len(results') = Len(results) + 1
            \/ pc' = "done" /\ error' = "hook-exception"]_vars

RunTerminatesUnlessHookHangs_Witness ==
  /\ pc = "exec" /\ idx = 1 /\ Len(hooks) = 2
  /\ Len(calls) = 1 /\ Len(results) = 0

\* What one hook alone selects from a candidate list.
OwnMatches(h, fs) ==
  IF h.glob # <<>> /\ Len(fs) > 0
  THEN SelectSeq(fs, LAMBDA f : /\ matches(f, h.glob)
                                /\ ~(h.exclude # <<>> /\ matches(f, h.exclude)))
  ELSE fs

\* C24: the candidate files of a run are obtained once, before the loop,
\* and no loop step changes them; the files handed to the executor of a
\* hook are what that hook alone selects from the candidates, whatever the
\* other hooks and their results.
CandidatesAreFixed ==
  /\ [](\A c \in 1..Len(calls) :
          calls[c].files = OwnMatches(calls[c].config, files))
  /\ [](pc \in {"idle", "gitroot", "load", "staged"} => files = <<>>)
  /\ [][(pc \in {"loop", "exec"}) => (files' = files)]_vars

CandidatesAreFixed_Witness ==
  /\ files = AllFiles
  /\ Len(calls) = 2
  /\ calls[1].files # files
  /\ calls[2].files = files
  /\ Len(results) = 2 /\ ~results[1].success

\* The number of times hook i was handed to the executor / was skipped.
TimesCalled(i) == Cardinality({c \in 1..Len(calls) : calls[c].hook = i})

TimesSkipped(i) == Cardinality({c \in 1..Len(skipped) : skipped[c] = i})

\* C25: in the loop, every hook the loop is past has been either skipped
\* once (never executed) or executed once (never skipped), with one result
\* per executed hook and none for the others; when the loop completes,
\* results plus skipped hooks are as many as the hooks of the trigger.
EachVisitedHookOnce ==
  (pc \in {"loop", "exec"} \/ Aggregated) =>
    /\ \A i \in 1..Len(hooks) :
         IF i < idx
         THEN TimesCalled(i) + TimesSkipped(i) = 1
         ELSE IF i = idx /\ pc = "exec"
         THEN TimesCalled(i) = 1 /\ TimesSkipped(i) = 0
         ELSE TimesCalled(i) = 0 /\ TimesSkipped(i) = 0
    /\ Len(results) = Cardinality({i \in 1..Len(hooks) :
                                    i < idx /\ TimesCalled(i) = 1})
    /\ Len(results) + Len(skipped) = idx - 1
    /\ (idx > Len(hooks)) => Len(results) + Len(skipped) = Len(hooks)

EachVisitedHookOnce_Witness ==
  /\ Aggregated
  /\ Len(hooks) = 2
  /\ Len(skipped) = 1 /\ Len(results) = 1
  /\ skipped = <<1>>

\* C26: install() writes deno-hooks.yml only when there is no configuration
\* source: a deno-hooks.yml that exists, valid or not, is never replaced,
\* whatever the message of the error met while loading it.
DefaultNeverOverwrites ==
  [][(yml' # yml) => (~yml.exists /\ NoSource)]_vars

\* C27: install() changes only the scripts of the triggers of the
\* configuration it loaded, and only in its installHook loop: the script of
\* a trigger the configuration no longer has stays as it was.  What it
\* writes depends on the configuration alone, so a script that already has
\* the content of the current configuration keeps that content.
InstallWritesOnlyItsTriggers ==
  /\ [][\A t \in Triggers :
          (scripts'[t] # scripts[t]) =>
            /\ ipc \in {"write", "chmod"}
            /\ config.hooks[t].present
            /\ scripts'[t].present
            /\ scripts'[t].lines = generateHookScript(config.hooks[t].list)
            /\ (scripts[t].present
                /\ scripts[t].lines = generateHookScript(config.hooks[t].list))
               => scripts'[t].lines = scripts[t].lines]_vars
  /\ [](ipc = "done" =>
         \A t \in Triggers :
           config.hooks[t].present =>
             scripts[t].lines = generateHookScript(config.hooks[t].list))

InstallWritesOnlyItsTriggers_Witness ==
  /\ ipc = "done"
  /\ config.hooks[PreCommit].present /\ ~config.hooks[PrePush].present
  /\ scripts[PreCommit].present
  /\ scripts[PrePush] = EarlierScript(os)

\* --------------------------------------------------------- version script
\* Everything the version script leaves alone.
toolVars == <<fsVars, runVars, os, hooksDir, scripts, instVars, shVars>>

\* The roots the version script is studied on: either copy of the script, a
\* deno.json without hook section, a clean or dirty work tree, and a local
\* repository that may already hold the tag of the current version or of the
\* next dev version, and a remote that has both of these tags or neither.
InitVersion ==
  /\ yml = YmlAbsent
  /\ json = JsonFile(TRUE, TRUE, FALSE, NoConfig)
  /\ pc = "idle"
  /\ RunLocalsInit
  /\ os = "linux"
  /\ hooksDir = FALSE
  /\ scripts = NoScripts
  /\ InstallLocalsInit
  /\ ShellInit
  /\ variant \in Variants
  /\ version \in Versions
  /\ clean \in BOOLEAN
  /\ tags \in SUBSET {TagName(version), TagName(getNextDevVersion(version))}
  /\ remoteTags \in {{}, {TagName(version), TagName(getNextDevVersion(version))}}
  /\ commits = <<>>
  /\ pushed = 0
  /\ now = 1
  /\ VersionLocalsInit

\* Deno.exit(code) after the console.error of "message"; a command that
\* returns leaves with status 0.
VExit(code, message) ==
  /\ vpc' = "exited"
  /\ vstatus' = code
  /\ verror' = message

\* The developer edits, stashes or commits between two commands.
Edit ==
  /\ vpc = "idle"
  /\ clean' = ~clean
  /\ UNCHANGED <<toolVars, variant, version, tags, remoteTags, commits, pushed,
                 now, verLocals, vruns>>

\* bump(type) up to its first await; a throw of bumpStableVersion (or of
\* parseVersion) is caught at the top level, which exits with 1.
BumpStart(type) ==
  /\ vpc = "idle"
  /\ vruns < MaxRuns
  /\ vruns' = vruns + 1
  /\ vcmd' = "bump"
  /\ current' = version
  /\ tagName' = <<>>
  /\ IF CanBump(version)
     THEN /\ newVersion' = bumpStableVersion(version, type)
          /\ vpc' = "status"
          /\ UNCHANGED <<verror, vstatus>>
     ELSE /\ newVersion' = <<>>
          /\ VExit(1, "cannot bump")
  /\ UNCHANGED <<toolVars, variant, gitVars, now>>

\* resetFromDev() up to its first await; the older copy has no reset
\* command and leaves through the default case of the switch.
ResetStart ==
  /\ vpc = "idle"
  /\ vruns < MaxRuns
  /\ vruns' = vruns + 1
  /\ vcmd' = "reset"
  /\ current' = version
  /\ tagName' = <<>>
  /\ IF variant = "version.ts"
     THEN /\ newVersion' = <<>>
          /\ VExit(1, "unknown command")
     ELSE IF ~isDev(version)
     THEN /\ newVersion' = <<>>
          /\ VExit(0, "")
     ELSE /\ newVersion' = getStableBase(version)
          /\ vpc' = "status"
          /\ UNCHANGED <<verror, vstatus>>
  /\ UNCHANGED <<toolVars, variant, gitVars, now>>

\* tagDev() up to its first await: the newer copy takes the clock and looks
\* for the tag first, the older copy counts the dev number up and looks at
\* the work tree first.
TagDevStart ==
  /\ vpc = "idle"
  /\ vruns < MaxRuns
  /\ vruns' = vruns + 1
  /\ vcmd' = "dev"
  /\ current' = version
  /\ \E t \in now..MaxEpoch :
       /\ now' = t
       /\ newVersion' = IF variant = "part_004"
                        THEN getTimestampDevVersion(version, t)
                        ELSE getNextDevVersion(version)
  /\ tagName' = TagName(newVersion')
  /\ vpc' = IF variant = "part_004" THEN "exists" ELSE "status"
  /\ UNCHANGED <<toolVars, variant, gitVars, verror, vstatus>>

\* tag() up to its first await: only the newer copy refuses a dev version.
TagStart ==
  /\ vpc = "idle"
  /\ vruns < MaxRuns
  /\ vruns' = vruns + 1
  /\ vcmd' = "tag"
  /\ current' = version
  /\ newVersion' = version
  /\ tagName' = TagName(version)
  /\ IF variant = "part_004" /\ isDev(version)
     THEN VExit(1, "dev version")
     ELSE /\ vpc' = "status"
          /\ UNCHANGED <<verror, vstatus>>
  /\ UNCHANGED <<toolVars, variant, gitVars, now>>

\* const isClean = await checkGitStatus(); if (!isClean) Deno.exit(1)
CheckGitStatus ==
  /\ vpc = "status"
  /\ IF ~clean
     THEN VExit(1, "not clean")
     ELSE /\ vpc' = CASE vcmd = "tag" -> "exists"
                      [] vcmd = "dev" /\ variant = "version.ts" -> "exists"
                      [] OTHER -> "update"
          /\ UNCHANGED <<verror, vstatus>>
  /\ UNCHANGED <<toolVars, variant, gitVars, now, vcmd, current, newVersion,
                 tagName, vruns>>

\* const tagExists = await checkTagExists(tagName); if (tagExists) Deno.exit(1)
CheckTagExists ==
  /\ vpc = "exists"
  /\ IF tagName \in tags
     THEN VExit(1, "tag exists")
     ELSE /\ vpc' = CASE vcmd = "tag" -> "create"
                      [] vcmd = "dev" /\ variant = "part_004" -> "status"
                      [] OTHER -> "update"
          /\ UNCHANGED <<verror, vstatus>>
  /\ UNCHANGED <<toolVars, variant, gitVars, now, vcmd, current, newVersion,
                 tagName, vruns>>

\* await updateVersion(newVersion): deno.json is rewritten with the new
\* version and every other key as it was; bump() ends here.
UpdateVersion ==
  /\ vpc = "update"
  /\ version' = newVersion
  /\ clean' = FALSE
  /\ IF vcmd = "bump"
     THEN VExit(0, "")
     ELSE /\ vpc' = "commit"
          /\ UNCHANGED <<verror, vstatus>>
  /\ UNCHANGED <<toolVars, variant, tags, remoteTags, commits, pushed, now,
                 vcmd, current, newVersion, tagName, vruns>>

\* git add deno.json and git commit -m (git commit -am in the older copy);
\* the outcome of the commit is git's.
GitCommit ==
  /\ vpc = "commit"
  /\ \E success \in BOOLEAN :
       IF success
       THEN /\ commits' = Append(commits, version)
            /\ clean' = TRUE
            /\ vpc' = IF vcmd = "reset" THEN "push" ELSE "create"
            /\ UNCHANGED <<verror, vstatus>>
       ELSE /\ VExit(1, "commit failed")
            /\ UNCHANGED <<commits, clean>>
  /\ UNCHANGED <<toolVars, variant, version, tags, remoteTags, pushed, now,
                 vcmd, current, newVersion, tagName, vruns>>

\* git tag -a tagName
CreateTag ==
  /\ vpc = "create"
  /\ \E success \in BOOLEAN :
       IF success
       THEN /\ tags' = tags \cup {tagName}
            /\ vpc' = "push"
            /\ UNCHANGED <<verror, vstatus>>
       ELSE /\ VExit(1, "tag failed")
            /\ UNCHANGED tags
  /\ UNCHANGED <<toolVars, variant, version, clean, remoteTags, commits,
                 pushed, now, vcmd, current, newVersion, tagName, vruns>>

\* git push (reset), git push origin tagName (tag), git push origin HEAD
\* tagName (dev).  origin refuses a tag it already has; a push of two
\* references that fails may have updated one of them.
Push ==
  /\ vpc = "push"
  /\ \/ /\ vcmd = "reset"
        /\ \E success \in BOOLEAN :
             IF success
             THEN pushed' = Len(commits) /\ VExit(0, "")
             ELSE UNCHANGED pushed /\ VExit(1, "push failed")
        /\ UNCHANGED remoteTags
     \/ /\ vcmd \in {"tag", "dev"}
        /\ tagName \notin remoteTags
        /\ remoteTags' = remoteTags \cup {tagName}
        /\ pushed' = IF vcmd = "dev" THEN Len(commits) ELSE pushed
        /\ VExit(0, "")
     \/ /\ vcmd \in {"tag", "dev"}
        /\ vpc' = "cleanup"
        /\ \/ UNCHANGED <<remoteTags, pushed>>
           \/ /\ vcmd = "dev"
              /\ pushed' = Len(commits)
              /\ UNCHANGED remoteTags
           \/ /\ vcmd = "dev"
              /\ tagName \notin remoteTags
              /\ remoteTags' = remoteTags \cup {tagName}
              /\ UNCHANGED pushed
        /\ UNCHANGED <<verror, vstatus>>
  /\ UNCHANGED <<toolVars, variant, version, clean, tags, commits, now, vcmd,
                 current, newVersion, tagName, vruns>>

\* Mutant: the local tag stays after the failed push.
CleanupTag_KeepsTag ==
  /\ vpc = "cleanup"
  /\ VExit(1, "push failed")
  /\ UNCHANGED <<toolVars, variant, gitVars, now, vcmd, current, newVersion,
                 tagName, vruns>>

\* await runCommand(["git", "tag", "-d", tagName]); Deno.exit(1)
CleanupTag ==
  /\ vpc = "cleanup"
  /\ tags' = tags \ {tagName}
  /\ VExit(1, "push failed")
  /\ UNCHANGED <<toolVars, variant, version, clean, remoteTags, commits,
                 pushed, now, vcmd, current, newVersion, tagName, vruns>>

\* The process is gone; the next command starts from the top.
VersionEnd ==
  /\ vpc = "exited"
  /\ vpc' = "idle"
  /\ vcmd' = ""
  /\ current' = <<>>
  /\ newVersion' = <<>>
  /\ tagName' = <<>>
  /\ verror' = ""
  /\ vstatus' = -1
  /\ UNCHANGED <<toolVars, variant, gitVars, now, vruns>>

NextVersion ==
  \/ Edit
  \/ \E type \in BumpTypes : BumpStart(type)
  \/ ResetStart
  \/ TagDevStart
  \/ TagStart
  \/ CheckGitStatus
  \/ CheckTagExists
  \/ UpdateVersion
  \/ GitCommit
  \/ CreateTag
  \/ Push
  \/ CleanupTag
  \/ VersionEnd

SpecVersion == InitVersion /\ [][NextVersion]_vars

\* TRUE when the step creates a tag.
CreatesTag == ~(tags' \subseteq tags)

\* C28: the release commands change nothing before their guards passed.
\* tag creates a tag only in a state where the version is not a dev
\* version, the work tree is clean and the tag does not exist; deno.json is
\* rewritten only by updateVersion, which bump and tagDev reach only with a
\* clean work tree (and, for tagDev, with the tag not existing); the commit
\* follows the rewrite and the tag of tagDev follows the commit, and bump
\* neither commits nor tags.
NoMutationBeforeGuards ==
  /\ [](vpc = "create" /\ vcmd = "tag" =>
          ~isDev(version) /\ clean /\ tagName \notin tags)
  /\ [](vpc = "update" =>
          /\ clean
          /\ version = current
          /\ vcmd = "dev" => tagName \notin tags)
  /\ [][/\ (version' # version) => vpc = "update"
        /\ (commits' # commits) => vpc = "commit"
        /\ CreatesTag => vpc = "create"
        /\ (vpc' = "commit" /\ vpc # "commit") => vpc = "update"
        /\ (vpc' = "create" /\ vcmd' = "dev") => vpc = "commit"
        /\ (vcmd = "bump") => (commits' = commits /\ tags' = tags)]_vars

\* The command left with status 1.
VFailed == vpc = "exited" /\ vstatus = 1

DevVersionRoundTrips ==
  /\ [](vcmd = "dev" =>
          /\ isDev(newVersion)
          /\ ~isDev(current) => getStableBase(newVersion) = current
          /\ isDev(current) =>
               getStableBase(newVersion) = getStableBase(current))
  /\ [](vcmd = "reset" /\ ~isDev(current) => vpc = "exited" /\ version = current)
  /\ [][(vcmd' = "reset" /\ ~isDev(current')) => UNCHANGED gitVars]_vars

DevVersionRoundTrips_Witness ==
  /\ variant = "part_004"
  /\ vcmd = "dev"
  /\ ~isDev(current) /\ Len(current) = 2
  /\ newVersion = <<Core(0, 2, 1), Pre(1), Dev(MaxEpoch)>>
  /\ version = newVersion
  /\ vpc = "exited" /\ vstatus = 0

====
